---- MODULE Spec2Model ----
(***************************************************************************)
(* The OTP email-verification service of Card-crm-API                      *)
(* (services/emailVerificationService.ts) over the email_verifications     *)
(* table (db/schema.ts).  Request handlers run concurrently; every awaited *)
(* database statement is one atomic step of the store, and the code that   *)
(* runs between two awaits is one step of the handler.                     *)
(***************************************************************************)
EXTENDS Integers, Sequences, FiniteSets, TLC

VARIABLES
    emailVerifications, \* the table: a sequence of rows, in insertion order
    now,                \* the clock read by Date.now(), new Date() and NOW(), in ms
    pc,                 \* pc[p]: where handler p stands in its call
    loc,                \* loc[p]: the local variables of p's call
    last,               \* the call that ended in the step just taken, and how it ended
    calls,              \* the number of calls made so far
    clients,            \* the emails the requests of this behaviour are made for
    budget,             \* the number of requests made in this behaviour
    caller,             \* caller[p]: the authService function that made p's call of
                        \* the verification service ("" when it was called directly)
    users,              \* users[e]: the row of the users table for e: "none" when
                        \* there is none, else "unverified" or "verified" (isEmailVerified)
                        \* for a user with a password, "google" for a user
                        \* created by Google sign-in (verified, no password)
    sent,               \* sent[e]: the otp of the mail sendOTP delivered last to e
    tokens,             \* tokens[e]: the JWT tokens verifyEmail has handed out for e
    consumed,           \* consumed[e]: the otp a verifyOTP(e) returned true for, since
                        \* when no generateOTP(e) has returned ("" when there is none)
    replaced,           \* replaced[e]: the otp that the generateOTP(e) that returned
                        \* last overwrote ("" when it overwrote none)
    streak              \* streak[e]: the number of verifyOTP(e) calls that failed with
                        \* 'Invalid OTP' one after another since generateOTP(e)
                        \* returned, -1 once two calls for e have run at the same time

vars == <<emailVerifications, now, pc, loc, last, calls, clients, budget, caller,
          users, sent, tokens, consumed, replaced, streak>>

\* what the verification service does not touch
accounts == <<users, sent, tokens>>

---------------------------------------------------------------------------
(* Bounds of the model *)

\* the calls made in one behaviour whose requests are all for one email
MaxCalls == 5
\* the calls made in one behaviour whose requests are for any of Emails
MaxCallsAll == 3
\* the calls made in one behaviour in which the scheduler sweeps
MaxCallsSwept == 3
\* the requests made to authService in one behaviour
MaxRequests == 3
\* the clock advances at most this many times
MaxTicks == 2
\* one advance of the clock: 10 minutes, so that a record is met before,
\* exactly at and after its expiresAt
TickMs == 10 * 60 * 1000

\* the request handlers that run at the same time
Procs == {1, 2}
Emails == {"a@x.com", "b@x.com"}
FirstEmail == "a@x.com"

---------------------------------------------------------------------------
(* Program constants *)

\* expiresAt = new Date(Date.now() + 10 * 60 * 1000)
OTP_TTL_MS == 10 * 60 * 1000
\* if (record.attempts >= 3)
MAX_ATTEMPTS == 3

\* crypto.randomInt(min, max): an integer n with min <= n < max
randomInt(min, max) == min..(max - 1)

\* the values of randomInt(100000, 999999) the model draws: both ends of the
\* range the call can return
OtpDraws == {n \in randomInt(100000, 999999) : n = 100000 \/ n = 999998}

\* function generateOTP(): crypto.randomInt(100000, 999999).toString()
generateOTP == {ToString(n) : n \in OtpDraws}

\* the otp strings a caller submits to verifyOTP: the codes issued, and one
\* that differs from an issued code by a trailing blank only
Submitted == generateOTP \cup {"100000 "}

\* the messages of the errors the service throws
ErrNotFound == "OTP not found"
ErrExpired == "OTP has expired"
ErrTooMany == "Too many attempts. Please request a new OTP."
ErrInvalid == "Invalid OTP"
ErrGenerate == "Failed to generate OTP"
\* the messages of the errors authService throws
ErrUserExists == "User already exists with this email"
ErrUserNotFound == "User not found"
ErrAlreadyVerified == "Email is already verified"
ErrRegisterSend ==
    "Registration successful but failed to send OTP email. Please use resend OTP."
ErrResendSend == "Failed to send OTP email. Please try again later."
ErrVerifyEmail == "Email verification failed"
ErrInvalidLogin == "Invalid email or password"
ErrVerifyFirst == "Please verify your email first. Check your inbox for OTP."
ErrUseGoogle == "Please use Google sign-in for this account"
\* the message of the store when an insert breaks the unique index of users.email
ErrUserInsert == "duplicate key value violates unique constraint"
\* the call returned normally
Returned == "returned"

---------------------------------------------------------------------------
(* The store: the statements the service sends to email_verifications *)

Row(email, otp, expiresAt, attempts) ==
    [email |-> email, otp |-> otp, expiresAt |-> expiresAt, attempts |-> attempts]

\* db.select().from(emailVerifications).where(eq(email, e))
SelectWhereEmail(table, e) == SelectSeq(table, LAMBDA r : r.email = e)

\* email: text('email').notNull().unique()
UniqueEmail(table, row) == \A i \in 1..Len(table) : table[i].email # row.email

\* a table without the unique index on email
InsertOk_NoUniqueIndex(table, row) == TRUE

\* db.insert(emailVerifications).values(row): rejected by the unique index
\* when a row with that email is there
InsertOk(table, row) == UniqueEmail(table, row)
Insert(table, row) == IF InsertOk(table, row) THEN Append(table, row) ELSE table

\* an update that sets otp and expiresAt and leaves attempts as it is
UpdateIssue_KeepsAttempts(table, e, otp, expiresAt) ==
    [i \in 1..Len(table) |->
        IF table[i].email = e
        THEN [table[i] EXCEPT !.otp = otp, !.expiresAt = expiresAt]
        ELSE table[i]]

\* db.update(emailVerifications).set({otp, expiresAt, attempts: 0}).where(eq(email, e))
UpdateIssue(table, e, otp, expiresAt) ==
    [i \in 1..Len(table) |->
        IF table[i].email = e
        THEN [table[i] EXCEPT !.otp = otp, !.expiresAt = expiresAt, !.attempts = 0]
        ELSE table[i]]

\* an update of attempts without its where clause
UpdateAttempts_AllRows(table, e, n) ==
    [i \in 1..Len(table) |-> [table[i] EXCEPT !.attempts = n]]

\* an update of attempts that is not persisted
UpdateAttempts_Lost(table, e, n) == table

\* db.update(emailVerifications).set({attempts: n}).where(eq(email, e))
UpdateAttempts(table, e, n) ==
    [i \in 1..Len(table) |->
        IF table[i].email = e THEN [table[i] EXCEPT !.attempts = n] ELSE table[i]]

\* a delete that removes nothing
DeleteWhereEmail_Keeps(table, e) == table

\* db.delete(emailVerifications).where(eq(email, e))
DeleteWhereEmail(table, e) == SelectSeq(table, LAMBDA r : r.email # e)

\* a sweep whose delete matches no row
DeleteExpired_Nothing(table, t) == table

\* a sweep that spares the rows with attempts at the limit
DeleteExpired_SparesLocked(table, t) ==
    SelectSeq(table, LAMBDA r : ~(r.expiresAt < t) \/ r.attempts >= 3)

\* db.delete(emailVerifications).where(sql`expiresAt < NOW()`)
DeleteExpired(table, t) == SelectSeq(table, LAMBDA r : ~(r.expiresAt < t))

---------------------------------------------------------------------------
(* Locals of a call, and the record of a finished call *)

NoLocals == [email |-> "", otp |-> "", expiresAt |-> 0, existing |-> 0,
             records |-> <<>>, attempts |-> 0]
NoCall == [op |-> "", email |-> "", otp |-> "", outcome |-> ""]
Call(op, email, otp, outcome) ==
    [op |-> op, email |-> email, otp |-> otp, outcome |-> outcome]

\* the empty tables, the handlers idle, and one of the workloads: the emails
\* requests are made for and the number of requests
Begin(workloads) ==
    /\ emailVerifications = <<>>
    /\ now = 0
    /\ pc = [p \in Procs |-> "idle"]
    /\ loc = [p \in Procs |-> NoLocals]
    /\ last = NoCall
    /\ calls = 0
    /\ \E w \in workloads : clients = w[1] /\ budget = w[2]
    /\ caller = [p \in Procs |-> ""]
    /\ users = [e \in Emails |-> "none"]
    /\ sent = [e \in Emails |-> ""]
    /\ tokens = [e \in Emails |-> 0]
    /\ consumed = [e \in Emails |-> ""]
    /\ replaced = [e \in Emails |-> ""]
    /\ streak = [e \in Emails |-> 0]

Init == Begin({<<{FirstEmail}, MaxCalls>>, <<Emails, MaxCallsAll>>})

\* a call of another handler than p for email e is under way
InFlight(p, e) == \E q \in Procs \ {p} : pc[q] # "idle" /\ loc[q].email = e

\* a call for e starts: it breaks the streak when another call for e is under way
StartStreak(p, e) ==
    streak' = IF InFlight(p, e) THEN [streak EXCEPT ![e] = -1] ELSE streak

\* a request arrives: it is served by a free handler (the lowest one: the
\* handlers are interchangeable)
Start(p, e) ==
    /\ pc[p] = "idle"
    /\ \A q \in Procs : pc[q] = "idle" => p <= q
    /\ calls < budget
    /\ calls' = calls + 1
    /\ e \in clients \cup {""}
    /\ UNCHANGED <<clients, budget>>

\* an authService function that swallows the error of generateOTP
Resume_SendsAnyway(c, call) ==
    IF c \in {"register", "resendOTP"} /\ call.op = "generateOTP" THEN "send"
    ELSE IF call.outcome # Returned THEN "idle"
    ELSE IF c = "verifyEmail" /\ call.op = "verifyOTP" THEN "e_update"
    ELSE "idle"

\* where the handler goes on when a call ends: an error thrown by the
\* verification service passes through its caller and ends the request; after
\* generateOTP returned, register and resendOTP go on to sendOTP; after
\* verifyOTP returned, verifyEmail goes on to the update of the user
Resume(c, call) ==
    IF call.outcome # Returned THEN "idle"
    ELSE IF c \in {"register", "resendOTP"} /\ call.op = "generateOTP" THEN "send"
    ELSE IF c = "verifyEmail" /\ call.op = "verifyOTP" THEN "e_update"
    ELSE "idle"

Finish(p, call) ==
    LET to == Resume(caller[p], call)
    IN  /\ pc' = [pc EXCEPT ![p] = to]
        /\ loc' = [loc EXCEPT ![p] =
                     IF to = "idle" THEN NoLocals
                     ELSE [NoLocals EXCEPT !.email = call.email, !.otp = call.otp]]
        /\ caller' = [caller EXCEPT ![p] = IF to = "idle" THEN "" ELSE @]
        /\ last' = call

---------------------------------------------------------------------------
(* emailVerificationService.generateOTP(email) *)

\* lines 13-19: draw the otp, compute expiresAt, and the lookup by email
GenerateLookup(p, e, otp) ==
    /\ pc' = [pc EXCEPT ![p] = "g_write"]
    /\ loc' = [loc EXCEPT ![p] =
                 [NoLocals EXCEPT !.email = e, !.otp = otp,
                                  !.expiresAt = now + OTP_TTL_MS,
                                  !.existing = Len(SelectWhereEmail(emailVerifications, e))]]
    /\ last' = NoCall
    /\ StartStreak(p, e)
    /\ UNCHANGED <<emailVerifications, now, consumed, replaced, accounts>>

\* generateOTP called by a request of its own
GenerateCall(p, e, otp) ==
    /\ Start(p, e)
    /\ GenerateLookup(p, e, otp)
    /\ UNCHANGED caller

\* lines 21-39: update when the lookup found a row, insert otherwise; an
\* insert the store rejects is caught and rethrown as 'Failed to generate OTP'
GenerateWrite(p) ==
    LET l == loc[p]
        row == Row(l.email, l.otp, l.expiresAt, 0)
        old == SelectWhereEmail(emailVerifications, l.email)
        returns == l.existing > 0 \/ InsertOk(emailVerifications, row)
    IN  /\ pc[p] = "g_write"
        /\ replaced' = IF ~returns THEN replaced
                       ELSE [replaced EXCEPT ![l.email] =
                               IF l.existing > 0 /\ Len(old) > 0 THEN old[1].otp ELSE ""]
        /\ streak' = IF ~returns THEN streak
                     ELSE [streak EXCEPT ![l.email] = IF InFlight(p, l.email) THEN -1 ELSE 0]
        /\ IF l.existing > 0
           THEN /\ emailVerifications' =
                       UpdateIssue(emailVerifications, l.email, l.otp, l.expiresAt)
                /\ Finish(p, Call("generateOTP", l.email, l.otp, Returned))
                /\ consumed' = [consumed EXCEPT ![l.email] = ""]
           ELSE /\ emailVerifications' = Insert(emailVerifications, row)
                /\ Finish(p, Call("generateOTP", l.email, l.otp,
                                  IF InsertOk(emailVerifications, row)
                                  THEN Returned ELSE ErrGenerate))
                /\ consumed' = IF InsertOk(emailVerifications, row)
                               THEN [consumed EXCEPT ![l.email] = ""]
                               ELSE consumed
        /\ UNCHANGED <<now, calls, clients, budget, accounts>>

---------------------------------------------------------------------------
(* emailVerificationService.verifyOTP(email, otp) *)

\* lines 44-47: the lookup by email
VerifyLookup(p, e, otp) ==
    /\ pc' = [pc EXCEPT ![p] = "v_check"]
    /\ loc' = [loc EXCEPT ![p] =
                 [NoLocals EXCEPT !.email = e, !.otp = otp,
                                  !.records = SelectWhereEmail(emailVerifications, e)]]
    /\ last' = NoCall
    /\ StartStreak(p, e)
    /\ UNCHANGED <<emailVerifications, now, consumed, replaced, accounts>>

\* verifyOTP called by a request of its own
VerifyCall(p, e, otp) ==
    /\ Start(p, e)
    /\ VerifyLookup(p, e, otp)
    /\ UNCHANGED caller

\* the expiry check made after the comparison of the codes
VerifyDecision_ExpiryLast(records, otp, t) ==
    IF Len(records) = 0 THEN ErrNotFound
    ELSE LET record == records[1]
         IN  IF record.attempts >= MAX_ATTEMPTS THEN ErrTooMany
             ELSE IF record.otp # otp THEN "update"
             ELSE IF t > record.expiresAt THEN ErrExpired
             ELSE "delete"

\* the lockout check made before the expiry check
VerifyDecision_LockoutFirst(records, otp, t) ==
    IF Len(records) = 0 THEN ErrNotFound
    ELSE LET record == records[1]
         IN  IF record.attempts >= MAX_ATTEMPTS THEN ErrTooMany
             ELSE IF t > record.expiresAt THEN ErrExpired
             ELSE IF record.otp # otp THEN "update"
             ELSE "delete"

\* the lockout check written with > for >=
VerifyDecision_LockoutOffByOne(records, otp, t) ==
    IF Len(records) = 0 THEN ErrNotFound
    ELSE LET record == records[1]
         IN  IF t > record.expiresAt THEN ErrExpired
             ELSE IF record.attempts > MAX_ATTEMPTS THEN ErrTooMany
             ELSE IF record.otp # otp THEN "update"
             ELSE "delete"

\* lines 49-71: the checks on the row read, in the order of the code; what
\* the handler does next: throw a message, send the update, send the delete
VerifyDecision(records, otp, t) ==
    IF Len(records) = 0 THEN ErrNotFound
    ELSE LET record == records[1]
         IN  IF t > record.expiresAt THEN ErrExpired
             ELSE IF record.attempts >= MAX_ATTEMPTS THEN ErrTooMany
             ELSE IF record.otp # otp THEN "update"
             ELSE "delete"

VerifyCheck(p) ==
    LET l == loc[p]
        d == VerifyDecision(l.records, l.otp, now)
    IN  /\ pc[p] = "v_check"
        /\ IF d = "update"
           THEN /\ pc' = [pc EXCEPT ![p] = "v_update"]
                /\ loc' = [loc EXCEPT ![p] =
                             [NoLocals EXCEPT !.email = l.email, !.otp = l.otp,
                                              !.attempts = l.records[1].attempts + 1]]
                /\ last' = NoCall
                /\ UNCHANGED caller
           ELSE IF d = "delete"
           THEN /\ pc' = [pc EXCEPT ![p] = "v_delete"]
                /\ loc' = [loc EXCEPT ![p] =
                             [NoLocals EXCEPT !.email = l.email, !.otp = l.otp]]
                /\ last' = NoCall
                /\ UNCHANGED caller
           ELSE Finish(p, Call("verifyOTP", l.email, l.otp, d))
        /\ UNCHANGED <<emailVerifications, now, calls, clients, budget, accounts,
                       consumed, replaced, streak>>

\* lines 64-68: the update of attempts, then throw 'Invalid OTP'
VerifyUpdate(p) ==
    LET l == loc[p]
    IN  /\ pc[p] = "v_update"
        /\ emailVerifications' = UpdateAttempts(emailVerifications, l.email, l.attempts)
        /\ Finish(p, Call("verifyOTP", l.email, l.otp, ErrInvalid))
        /\ streak' = [streak EXCEPT ![l.email] = IF @ >= 0 THEN @ + 1 ELSE @]
        /\ UNCHANGED <<now, calls, clients, budget, accounts, consumed, replaced>>

\* lines 71-73: the delete, then return true
VerifyDelete(p) ==
    LET l == loc[p]
    IN  /\ pc[p] = "v_delete"
        /\ emailVerifications' = DeleteWhereEmail(emailVerifications, l.email)
        /\ Finish(p, Call("verifyOTP", l.email, l.otp, Returned))
        /\ consumed' = [consumed EXCEPT ![l.email] = l.otp]
        /\ UNCHANGED <<now, calls, clients, budget, accounts, replaced, streak>>

---------------------------------------------------------------------------
(* emailVerificationService.cleanupExpiredOTPs() *)

CleanupExpiredOTPs(p) ==
    /\ Start(p, "")
    /\ emailVerifications' = DeleteExpired(emailVerifications, now)
    /\ Finish(p, Call("cleanupExpiredOTPs", "", "", Returned))
    /\ UNCHANGED <<now, accounts, consumed, replaced, streak>>

---------------------------------------------------------------------------
(* The clock *)

Tick ==
    /\ now < MaxTicks * TickMs
    /\ now' = now + TickMs
    /\ last' = NoCall
    /\ UNCHANGED <<emailVerifications, pc, loc, calls, clients, budget, caller, accounts,
                   consumed, replaced, streak>>

Next ==
    \/ \E p \in Procs, e \in Emails, otp \in generateOTP : GenerateCall(p, e, otp)
    \/ \E p \in Procs : GenerateWrite(p)
    \/ \E p \in Procs, e \in Emails, otp \in Submitted : VerifyCall(p, e, otp)
    \/ \E p \in Procs : VerifyCheck(p)
    \/ \E p \in Procs : VerifyUpdate(p)
    \/ \E p \in Procs : VerifyDelete(p)
    \/ \E p \in Procs : CleanupExpiredOTPs(p)
    \/ Tick

Spec == Init /\ [][Next]_vars

---------------------------------------------------------------------------
(* cleanupExpiredOTPs run again and again by a scheduler *)

\* one run of cleanupExpiredOTPs outside the request handlers
Sweep ==
    /\ emailVerifications' = DeleteExpired(emailVerifications, now)
    /\ last' = Call("cleanupExpiredOTPs", "", "", Returned)
    /\ UNCHANGED <<now, pc, loc, calls, clients, budget, caller, accounts,
                   consumed, replaced, streak>>

SweepInit == Begin({<<{FirstEmail}, MaxCallsSwept>>})

SweepNext == Next \/ Sweep

\* calls for one email next to a sweep that is never put off for ever
SweepSpec == SweepInit /\ [][SweepNext]_vars /\ WF_vars(Sweep)

---------------------------------------------------------------------------
(* The statements of the verification service failing in the store *)

\* lines 16-19 throw: the catch of lines 36-39 rethrows 'Failed to generate OTP'
GenerateSelectFails(p) ==
    /\ pc[p] = "g_select"
    /\ Finish(p, Call("generateOTP", loc[p].email, "", ErrGenerate))
    /\ UNCHANGED <<emailVerifications, now, calls, clients, budget, accounts,
                   consumed, replaced, streak>>

\* the update of lines 22-25 or the insert of lines 27-32 throws: the same catch
GenerateWriteFails(p) ==
    /\ pc[p] = "g_write"
    /\ Finish(p, Call("generateOTP", loc[p].email, loc[p].otp, ErrGenerate))
    /\ UNCHANGED <<emailVerifications, now, calls, clients, budget, accounts,
                   consumed, replaced, streak>>

\* a cleanupExpiredOTPs that lets the error of its delete out
CleanupCaught_Rethrown == "Error cleaning up expired OTPs"

\* lines 83-85: catch (error) { console.error(...) }: the error of the
\* delete is logged and the call returns
CleanupCaught == Returned

\* the delete of line 82 throws
CleanupFails(p) ==
    /\ Start(p, "")
    /\ Finish(p, Call("cleanupExpiredOTPs", "", "", CleanupCaught))
    /\ UNCHANGED <<emailVerifications, now, accounts, consumed, replaced, streak>>

---------------------------------------------------------------------------
(* authService: register, resendOTP and verifyEmail, the callers of the    *)
(* verification service                                                    *)

\* register, lines 19-26: the lookup of the user
RegisterCall(p, e) ==
    /\ Start(p, e)
    /\ e # ""
    /\ IF users[e] # "none"
       THEN Finish(p, Call("register", e, "", ErrUserExists))
       ELSE /\ pc' = [pc EXCEPT ![p] = "r_insert"]
            /\ loc' = [loc EXCEPT ![p] = [NoLocals EXCEPT !.email = e]]
            /\ caller' = [caller EXCEPT ![p] = "register"]
            /\ last' = NoCall
    /\ UNCHANGED <<emailVerifications, now, accounts, consumed, replaced, streak>>

\* register, lines 29-47: the insert of the user with isEmailVerified: false,
\* rejected by the unique index when a user with the email is there; then
\* the call of generateOTP
RegisterInsert(p) ==
    LET e == loc[p].email
    IN  /\ pc[p] = "r_insert"
        /\ IF users[e] # "none"
           THEN /\ Finish(p, Call("register", e, "", ErrUserInsert))
                /\ UNCHANGED users
           ELSE /\ users' = [users EXCEPT ![e] = "unverified"]
                /\ pc' = [pc EXCEPT ![p] = "g_select"]
                /\ last' = NoCall
                /\ UNCHANGED <<loc, caller>>
        /\ UNCHANGED <<emailVerifications, now, calls, clients, budget, sent, tokens,
                       consumed, replaced, streak>>

\* user.isEmailVerified and user.password of a row of users
IsEmailVerified(u) == u \in {"verified", "google"}
HasPassword(u) == u \in {"unverified", "verified"}

\* a resendOTP without the check of isEmailVerified
ResendRefusal_NoVerifiedCheck(u) == IF u = "none" THEN ErrUserNotFound ELSE ""

\* resendOTP, lines 136-142: the error the user row read is refused with,
\* "" when the request goes on
ResendRefusal(u) ==
    IF u = "none" THEN ErrUserNotFound
    ELSE IF IsEmailVerified(u) THEN ErrAlreadyVerified
    ELSE ""

\* resendOTP, lines 131-145: the lookup of the user, the two refusals, then
\* the call of generateOTP
ResendCall(p, e) ==
    /\ Start(p, e)
    /\ e # ""
    /\ IF ResendRefusal(users[e]) # ""
       THEN Finish(p, Call("resendOTP", e, "", ResendRefusal(users[e])))
       ELSE /\ pc' = [pc EXCEPT ![p] = "g_select"]
            /\ loc' = [loc EXCEPT ![p] = [NoLocals EXCEPT !.email = e]]
            /\ caller' = [caller EXCEPT ![p] = "resendOTP"]
            /\ last' = NoCall
    /\ UNCHANGED <<emailVerifications, now, accounts, consumed, replaced, streak>>

\* generateOTP called by register (line 47) or resendOTP (line 145)
GenerateSelect(p, otp) ==
    /\ pc[p] = "g_select"
    /\ GenerateLookup(p, loc[p].email, otp)
    /\ UNCHANGED <<calls, clients, budget, caller>>

\* register, lines 50-71, and resendOTP, lines 148-159: the code that
\* generateOTP returned is handed to emailService.sendOTP; the mail is
\* delivered and the request succeeds, or sendOTP throws and so does the request
SendOTPWith(p, delivered) ==
    LET l == loc[p]
    IN  /\ pc[p] = "send"
        /\ sent' = IF delivered THEN [sent EXCEPT ![l.email] = l.otp] ELSE sent
        /\ Finish(p, Call(caller[p], l.email, l.otp,
                          IF delivered THEN Returned
                          ELSE IF caller[p] = "register" THEN ErrRegisterSend
                          ELSE ErrResendSend))
        /\ UNCHANGED <<emailVerifications, now, calls, clients, budget, users, tokens,
                       consumed, replaced, streak>>

SendOTP(p) == \E delivered \in BOOLEAN : SendOTPWith(p, delivered)

\* verifyEmail, line 82: the call of verifyOTP
VerifyEmailCall(p, e, otp) ==
    /\ Start(p, e)
    /\ e # ""
    /\ VerifyLookup(p, e, otp)
    /\ caller' = [caller EXCEPT ![p] = "verifyEmail"]

\* the characters the class \d of a regular expression without flags matches
Digits == {"0", "1", "2", "3", "4", "5", "6", "7", "8", "9"}

\* a schema that checks the length alone
verifyOTPSchema_LengthOnly(otp) == Len(otp) = 6

\* verifyOTPSchema: otp: z.string().length(6).regex(/^\d+$/)
verifyOTPSchema(otp) ==
    /\ Len(otp) = 6
    /\ Len(otp) >= 1
    /\ \A i \in 1..Len(otp) : SubSeq(otp, i, i) \in Digits

\* the otp fields of the bodies posted to /verify-email: the codes issued,
\* and strings that are too long, too short, and six characters not all digits
Posted == generateOTP \cup {"100000 ", "10000", "10000a"}

\* res.status(400)
Status400 == "400"

\* POST /verify-email: verifyOTPSchema.parse(req.body) throws and the catch
\* answers 400, or the body is handed to authService.verifyEmail
PostVerifyEmail(p, e, otp) ==
    IF verifyOTPSchema(otp)
    THEN VerifyEmailCall(p, e, otp)
    ELSE /\ Start(p, e)
         /\ e # ""
         /\ Finish(p, Call("POST /verify-email", e, otp, Status400))
         /\ UNCHANGED <<emailVerifications, now, accounts, consumed, replaced, streak>>

\* verifyEmail, lines 85-120: after verifyOTP returned, the update of the
\* user to isEmailVerified: true, 'User not found' when it matched no row,
\* else the token
VerifyEmailUpdate(p) ==
    LET l == loc[p]
    IN  /\ pc[p] = "e_update"
        /\ IF users[l.email] = "none"
           THEN /\ Finish(p, Call("verifyEmail", l.email, l.otp, ErrUserNotFound))
                /\ UNCHANGED <<users, tokens>>
           ELSE /\ users' = [users EXCEPT ![l.email] =
                               IF @ = "google" THEN "google" ELSE "verified"]
                /\ tokens' = [tokens EXCEPT ![l.email] = @ + 1]
                /\ Finish(p, Call("verifyEmail", l.email, l.otp, Returned))
        /\ UNCHANGED <<emailVerifications, now, calls, clients, budget, sent,
                       consumed, replaced, streak>>

\* the password register stored (hashed) and the passwords login is called with
Password == "Secret#1"
Passwords == {Password, "Wrong#1"}

\* verifyEmail, lines 85-89 and 120-123: the update of the user throws in
\* the store; the catch rethrows the error, after verifyOTP deleted the record
VerifyEmailUpdateFails(p) ==
    LET l == loc[p]
    IN  /\ pc[p] = "e_update"
        /\ Finish(p, Call("verifyEmail", l.email, l.otp, ErrVerifyEmail))
        /\ UNCHANGED <<emailVerifications, now, calls, clients, budget, accounts,
                       consumed, replaced, streak>>

\* a login without the check of isEmailVerified
LoginOutcome_NoVerifiedCheck(u, password) ==
    IF u = "none" THEN ErrInvalidLogin
    ELSE IF ~HasPassword(u) THEN ErrUseGoogle
    ELSE IF password # Password THEN ErrInvalidLogin
    ELSE Returned

\* login, lines 175-202: the checks on the user row read, in the order of
\* the code; comparePassword accepts the password register hashed
LoginOutcome(u, password) ==
    IF u = "none" THEN ErrInvalidLogin
    ELSE IF ~IsEmailVerified(u) THEN ErrVerifyFirst
    ELSE IF ~HasPassword(u) THEN ErrUseGoogle
    ELSE IF password # Password THEN ErrInvalidLogin
    ELSE Returned

\* login, lines 167-220: the lookup of the user, the checks, the token
Login(p, e, password) ==
    /\ Start(p, e)
    /\ e # ""
    /\ Finish(p, Call("login", e, password, LoginOutcome(users[e], password)))
    /\ UNCHANGED <<emailVerifications, now, accounts, consumed, replaced, streak>>

\* handleGoogleAuth, lines 76-87: the Google account of email e signs in;
\* the lookup of the user
GoogleCall(p, e) ==
    /\ Start(p, e)
    /\ e # ""
    /\ pc' = [pc EXCEPT ![p] = IF users[e] # "none" THEN "o_link" ELSE "o_insert"]
    /\ loc' = [loc EXCEPT ![p] = [NoLocals EXCEPT !.email = e]]
    /\ last' = NoCall
    /\ UNCHANGED <<emailVerifications, now, caller, accounts, consumed, replaced, streak>>

\* a sign-in that marks the existing user verified
GoogleLinked_Verifies(u) == IF u = "unverified" THEN "verified" ELSE u

\* lines 90-95: set({ googleId: googleUser.id }) on the existing user
GoogleLinked(u) == u

\* handleGoogleAuth, lines 87-99 and 118-132: the existing user gets the
\* googleId, is read again, and a token is returned
GoogleLink(p) ==
    LET e == loc[p].email
    IN  /\ pc[p] = "o_link"
        /\ users' = [users EXCEPT ![e] = GoogleLinked(@)]
        /\ Finish(p, Call("handleGoogleAuth", e, "", Returned))
        /\ UNCHANGED <<emailVerifications, now, calls, clients, budget, sent, tokens,
                       consumed, replaced, streak>>

\* handleGoogleAuth, lines 100-132: the insert of a new user with
\* isEmailVerified: true and no password, rejected by the unique index
\* when a user with the email is there; then the token
GoogleInsert(p) ==
    LET e == loc[p].email
    IN  /\ pc[p] = "o_insert"
        /\ IF users[e] # "none"
           THEN /\ Finish(p, Call("handleGoogleAuth", e, "", ErrUserInsert))
                /\ UNCHANGED users
           ELSE /\ users' = [users EXCEPT ![e] = "google"]
                /\ Finish(p, Call("handleGoogleAuth", e, "", Returned))
        /\ UNCHANGED <<emailVerifications, now, calls, clients, budget, sent, tokens,
                       consumed, replaced, streak>>

AuthInit == Begin({<<{FirstEmail}, MaxRequests>>})

AuthNext ==
    \/ \E p \in Procs, e \in Emails : RegisterCall(p, e)
    \/ \E p \in Procs : RegisterInsert(p)
    \/ \E p \in Procs, e \in Emails : ResendCall(p, e)
    \/ \E p \in Procs, otp \in generateOTP : GenerateSelect(p, otp)
    \/ \E p \in Procs : GenerateSelectFails(p)
    \/ \E p \in Procs : GenerateWrite(p)
    \/ \E p \in Procs : GenerateWriteFails(p)
    \/ \E p \in Procs : SendOTP(p)
    \/ \E p \in Procs, e \in Emails, otp \in Posted : PostVerifyEmail(p, e, otp)
    \/ \E p \in Procs : VerifyCheck(p)
    \/ \E p \in Procs : VerifyUpdate(p)
    \/ \E p \in Procs : VerifyDelete(p)
    \/ \E p \in Procs : VerifyEmailUpdate(p)
    \/ \E p \in Procs : VerifyEmailUpdateFails(p)
    \/ \E p \in Procs, e \in Emails, password \in Passwords : Login(p, e, password)
    \/ \E p \in Procs, e \in Emails : GoogleCall(p, e)
    \/ \E p \in Procs : GoogleLink(p)
    \/ \E p \in Procs : GoogleInsert(p)
    \/ \E p \in Procs : CleanupExpiredOTPs(p)
    \/ \E p \in Procs : CleanupFails(p)
    \/ Tick

\* the requests to the routes of /auth and to authService for one email
\* over a store and a mail transport that may fail
AuthSpec == AuthInit /\ [][AuthNext]_vars

----------------------------------------------------------------------------
(* A registered, unverified user asks for a new code and submits it *)

\* the states a registration leaves behind: register for FirstEmail at
\* time issuedAt stored code otp and the mail was delivered or sendOTP threw
\* (the user is inserted either way); `failed` verifyEmail calls, one after
\* the other, were answered 'Invalid OTP' and raised attempts, to at most
\* MAX_ATTEMPTS; the clock went on to `at`; and the sweep ran (`swept`) or
\* did not run after that and deleted the record if it had expired
RecoverInit ==
    \E otp \in generateOTP, issuedAt \in {k * TickMs : k \in 0..MaxTicks},
       at \in {k * TickMs : k \in 0..MaxTicks},
       delivered \in BOOLEAN, failed \in 0..MAX_ATTEMPTS, swept \in BOOLEAN :
        LET table == <<Row(FirstEmail, otp, issuedAt + OTP_TTL_MS, failed)>>
        IN  /\ issuedAt <= at
            /\ now = at
            /\ emailVerifications = IF swept THEN DeleteExpired(table, at) ELSE table
            /\ users = [e \in Emails |-> IF e = FirstEmail THEN "unverified" ELSE "none"]
            /\ sent = [e \in Emails |-> IF e = FirstEmail /\ delivered THEN otp ELSE ""]
            /\ streak = [e \in Emails |-> IF e = FirstEmail THEN failed ELSE 0]
            /\ pc = [p \in Procs |-> "idle"]
            /\ loc = [p \in Procs |-> NoLocals]
            /\ last = NoCall
            /\ calls = 0
            /\ clients = {FirstEmail}
            /\ budget = 2
            /\ caller = [p \in Procs |-> ""]
            /\ tokens = [e \in Emails |-> 0]
            /\ consumed = [e \in Emails |-> ""]
            /\ replaced = [e \in Emails |-> ""]

\* the user asks for a new code
RecoverResend(p) ==
    /\ calls = 0
    /\ ResendCall(p, FirstEmail)

\* the user submits the code of the mail that the resendOTP that just
\* returned sent
RecoverVerify(p) ==
    /\ last = Call("resendOTP", FirstEmail, sent[FirstEmail], Returned)
    /\ VerifyEmailCall(p, FirstEmail, sent[FirstEmail])

\* the two requests, one after the other, with no other request at the same
\* time, the clock standing still, the store executing every statement and
\* the mail transport delivering
RecoverNext ==
    \/ \E p \in Procs : RecoverResend(p)
    \/ \E p \in Procs, otp \in generateOTP : GenerateSelect(p, otp)
    \/ \E p \in Procs : GenerateWrite(p)
    \/ \E p \in Procs : SendOTPWith(p, TRUE)
    \/ \E p \in Procs : RecoverVerify(p)
    \/ \E p \in Procs : VerifyCheck(p)
    \/ \E p \in Procs : VerifyDelete(p)
    \/ \E p \in Procs : VerifyEmailUpdate(p)

\* the user makes the two requests and every awaited statement of a request
\* under way is executed in the end
RecoverSpec == RecoverInit /\ [][RecoverNext]_vars /\ WF_vars(RecoverNext)

---------------------------------------------------------------------------
(* What the claims read *)

\* the rows of the table for email e
RecordsOf(e) == SelectWhereEmail(emailVerifications, e)

\* handler p takes the step from `from` to `to`
Moves(p, from, to) == pc[p] = from /\ pc'[p] = to

---------------------------------------------------------------------------
\* C1: a verifyOTP whose lookup read the issued code, checked strictly before
\* expiresAt with fewer than 3 attempts recorded, goes on to the delete,
\* returns true and leaves no row for the email; from then on, until a
\* generateOTP for that email returns, no row exists for the email, every
\* verifyOTP called for it reads no row, and a verifyOTP that read no row
\* fails with 'OTP not found', also when it resubmits the consumed code.
C1_VerifyConsumesCode ==
    [][/\ \A p \in Procs :
            LET l == loc[p] IN
            /\ ( /\ pc[p] = "v_check" /\ pc'[p] # "v_check"
                 /\ Len(l.records) > 0
                 /\ l.records[1].otp = l.otp
                 /\ now < l.records[1].expiresAt
                 /\ l.records[1].attempts < 3 )
               => pc'[p] = "v_delete"
            /\ Moves(p, "v_delete", "idle")
               => /\ last' = Call("verifyOTP", l.email, l.otp, Returned)
                  /\ Len(SelectWhereEmail(emailVerifications', l.email)) = 0
            /\ (Moves(p, "idle", "v_check") /\ consumed[loc'[p].email] # "")
               => Len(loc'[p].records) = 0
            /\ (Moves(p, "v_check", "idle") /\ Len(l.records) = 0)
               => last' = Call("verifyOTP", l.email, l.otp, ErrNotFound)
       /\ \A e \in Emails : consumed'[e] # "" => Len(SelectWhereEmail(emailVerifications', e)) = 0
      ]_vars

\* a consumed code was resubmitted: its verifyOTP returned true and no
\* generateOTP for the email has returned since, no row is left for the
\* email, and the call that just ended is a verifyOTP of that same code that
\* failed with 'OTP not found'
C1_Witness ==
    \E e \in Emails :
        /\ consumed[e] # ""
        /\ Len(RecordsOf(e)) = 0
        /\ last = Call("verifyOTP", e, consumed[e], ErrNotFound)

---------------------------------------------------------------------------
\* C2: in every reachable state every stored attempts value is between 0 and
\* 3 and every update of attempts a handler is about to send writes a value
\* between 1 and 3; and a verifyOTP that read an unexpired row with
\* attempts >= 3 fails with 'Too many attempts' whatever the code it
\* submits, sends no statement to the store and leaves the table as it is.
C2_AttemptsInRange ==
    /\ \A i \in 1..Len(emailVerifications) : emailVerifications[i].attempts \in 0..3
    /\ \A p \in Procs : pc[p] = "v_update" => loc[p].attempts \in 1..3

C2_AttemptsNeverPastLimit ==
    /\ []C2_AttemptsInRange
    /\ [][\A p \in Procs :
            LET l == loc[p] IN
            ( /\ pc[p] = "v_check" /\ pc'[p] # "v_check"
              /\ Len(l.records) > 0
              /\ ~(now > l.records[1].expiresAt)
              /\ l.records[1].attempts >= 3 )
            => /\ pc'[p] = "idle"
               /\ last' = Call("verifyOTP", l.email, l.otp, ErrTooMany)
               /\ emailVerifications' = emailVerifications
         ]_vars

\* a locked record was tried again: a row with attempts = 3 is stored and
\* the call that just ended is a verifyOTP for its email that failed with
\* 'Too many attempts'
C2_Witness ==
    \E i \in 1..Len(emailVerifications) :
        /\ emailVerifications[i].attempts = 3
        /\ last.op = "verifyOTP"
        /\ last.email = emailVerifications[i].email
        /\ last.outcome = ErrTooMany

---------------------------------------------------------------------------
\* C3: for one email, no two verifyOTP calls are at the same time between
\* their read of the record and their update of attempts: two calls never
\* both observe attempts < 3 and both proceed to increment (from which at
\* most 3 codes would be compared against one issued code).
C3_IncrementsSerialized ==
    \A p, q \in Procs :
        (p # q /\ pc[p] = "v_update" /\ pc[q] = "v_update")
        => loc[p].email # loc[q].email

---------------------------------------------------------------------------
\* C4: the outcome of verifyOTP is fixed by the row its lookup read, the otp
\* submitted and the clock at the checks, in this order: no row -> 'OTP not
\* found'; clock past expiresAt -> 'OTP has expired' (also when attempts is
\* 3); attempts >= 3 -> 'Too many attempts' (also when the otp is wrong);
\* otp different from the stored one -> the update, which ends in 'Invalid
\* OTP'; otherwise (also with 1 or 2 attempts recorded) the delete, which
\* ends in the call returning true; the four messages differ pairwise.
C4_Ends(p, outcome) ==
    /\ pc'[p] = "idle"
    /\ last' = Call("verifyOTP", loc[p].email, loc[p].otp, outcome)

C4_OutcomeInFixedOrder ==
    [][/\ Cardinality({ErrNotFound, ErrExpired, ErrTooMany, ErrInvalid, Returned}) = 5
       /\ \A p \in Procs :
            LET l == loc[p]
                r == l.records
            IN  /\ (pc[p] = "v_check" /\ pc'[p] # "v_check") =>
                     /\ Len(r) = 0 => C4_Ends(p, ErrNotFound)
                     /\ (Len(r) > 0 /\ now > r[1].expiresAt) => C4_Ends(p, ErrExpired)
                     /\ (Len(r) > 0 /\ ~(now > r[1].expiresAt) /\ r[1].attempts >= 3)
                        => C4_Ends(p, ErrTooMany)
                     /\ ( /\ Len(r) > 0 /\ ~(now > r[1].expiresAt)
                          /\ r[1].attempts < 3 /\ r[1].otp # l.otp )
                        => pc'[p] = "v_update"
                     /\ ( /\ Len(r) > 0 /\ ~(now > r[1].expiresAt)
                          /\ r[1].attempts < 3 /\ r[1].otp = l.otp )
                        => pc'[p] = "v_delete"
                /\ (pc[p] = "v_update" /\ pc'[p] # "v_update") => C4_Ends(p, ErrInvalid)
                /\ (pc[p] = "v_delete" /\ pc'[p] # "v_delete") => C4_Ends(p, Returned)
      ]_vars

\* a record both expired and locked was tried: a row with attempts = 3 whose
\* expiresAt is past is stored, and the call that just ended is a verifyOTP for
\* its email that failed with 'OTP has expired'
C4_Witness ==
    \E i \in 1..Len(emailVerifications) :
        /\ emailVerifications[i].attempts = 3
        /\ now > emailVerifications[i].expiresAt
        /\ last.op = "verifyOTP"
        /\ last.email = emailVerifications[i].email
        /\ last.outcome = ErrExpired

---------------------------------------------------------------------------
\* C6: in every reachable state the table holds at most one row per email.
C6_OneRecordPerEmail ==
    \A e \in Emails : Len(RecordsOf(e)) <= 1

\* two generateOTP calls met on an email without a row: the call that just
\* ended is a generateOTP whose insert the store rejected, and the email has
\* its one row, holding the code of the other call
C6_Witness ==
    /\ last.op = "generateOTP" /\ last.outcome = ErrGenerate
    /\ Len(RecordsOf(last.email)) = 1
    /\ RecordsOf(last.email)[1].otp # last.otp

---------------------------------------------------------------------------
\* C5: while the verifyOTP calls for an email follow one another after a
\* generateOTP returned (streak >= 0), the stored attempts equals the number
\* of calls that failed with 'Invalid OTP'; a call that reads the unexpired
\* record and submits another otp than the stored one after 0, 1 or 2 such
\* failures goes on to the update, which ends in 'Invalid OTP' with attempts
\* at 1, 2, 3; after 3 such failures the call fails with 'Too many attempts'
\* whether its otp is wrong or right, and the table is left as it is.
C5_AttemptsFollowStreak ==
    \A e \in Emails :
        (streak[e] >= 0 /\ ~InFlight(0, e) /\ Len(RecordsOf(e)) > 0)
        => RecordsOf(e)[1].attempts = streak[e]

C5_ThreeWrongThenLocked ==
    /\ []C5_AttemptsFollowStreak
    /\ [][\A p \in Procs :
            LET l == loc[p]
                r == l.records
                k == streak[l.email]
            IN  /\ ( /\ pc[p] = "v_check" /\ pc'[p] # "v_check"
                     /\ k >= 0 /\ Len(r) > 0 /\ ~(now > r[1].expiresAt) )
                   => /\ (k < 3 /\ r[1].otp # l.otp) => pc'[p] = "v_update"
                      /\ k >= 3 => /\ C4_Ends(p, ErrTooMany)
                                   /\ emailVerifications' = emailVerifications
                                   /\ RecordsOf(l.email)[1].attempts = 3
                /\ (Moves(p, "v_update", "idle") /\ k >= 0)
                   => /\ last' = Call("verifyOTP", l.email, l.otp, ErrInvalid)
                      /\ streak'[l.email] = k + 1
                      /\ k + 1 \in 1..3
                      /\ \A i \in 1..Len(emailVerifications') :
                            emailVerifications'[i].email = l.email
                            => emailVerifications'[i].attempts = k + 1
         ]_vars

\* the fourth call: three calls in a row failed with 'Invalid OTP', attempts
\* is 3, and the call that just ended submitted the stored otp and failed
\* with 'Too many attempts'
C5_Witness ==
    \E e \in Emails :
        /\ streak[e] = 3
        /\ Len(RecordsOf(e)) = 1
        /\ RecordsOf(e)[1].attempts = 3
        /\ last = Call("verifyOTP", e, RecordsOf(e)[1].otp, ErrTooMany)

---------------------------------------------------------------------------
\* C7: when generateOTP(email), called at time t, returns code c, the table
\* holds exactly one row for the email, with otp = c, attempts = 0 and
\* expiresAt = t + 10 minutes.
C7_IssueLeavesOneFreshRecord ==
    [][\A p \in Procs :
          /\ Moves(p, "idle", "g_write")
             => loc'[p].expiresAt = now + 10 * 60 * 1000
          /\ (Moves(p, "g_write", "idle") /\ last'.outcome = Returned)
             => SelectWhereEmail(emailVerifications', loc[p].email)
                  = <<Row(loc[p].email, loc[p].otp, loc[p].expiresAt, 0)>>
      ]_vars

---------------------------------------------------------------------------
\* C8 (amended): a generateOTP that finds a row for the email leaves exactly
\* one row, holding the new code c2 with attempts = 0; a verifyOTP that then
\* reads this unexpired row with fewer than 3 attempts and submits the
\* overwritten code c1 goes on to the update and fails with 'Invalid OTP'
\* when c1 differs from c2; and a verifyOTP goes on to the delete only when
\* the otp it submits is the one of the row it read.
C8_Fresh(p) ==
    /\ Len(loc[p].records) > 0
    /\ loc[p].records = RecordsOf(loc[p].email)
    /\ ~(now > loc[p].records[1].expiresAt)
    /\ loc[p].records[1].attempts < 3

C8_SecondCodeReplacesFirst ==
    [][\A p \in Procs :
          LET l == loc[p] IN
          /\ (Moves(p, "g_write", "idle") /\ l.existing > 0 /\ Len(RecordsOf(l.email)) > 0)
             => /\ SelectWhereEmail(emailVerifications', l.email)
                     = <<Row(l.email, l.otp, l.expiresAt, 0)>>
                /\ replaced'[l.email] = RecordsOf(l.email)[1].otp
                /\ last' = Call("generateOTP", l.email, l.otp, Returned)
          /\ ( /\ pc[p] = "v_check" /\ pc'[p] # "v_check"
               /\ C8_Fresh(p)
               /\ replaced[l.email] # "" /\ l.otp = replaced[l.email]
               /\ l.records[1].otp # replaced[l.email] )
             => pc'[p] = "v_update"
          /\ Moves(p, "v_update", "idle")
             => last' = Call("verifyOTP", l.email, l.otp, ErrInvalid)
          /\ Moves(p, "v_check", "v_delete") => l.otp = l.records[1].otp
      ]_vars

\* C8 as claimed: after the second generateOTP returned, a verifyOTP called
\* with no other call for the email under way (streak >= 0), that reads the
\* unexpired row with fewer than 3 attempts and submits the first code c1,
\* fails with 'Invalid OTP'.
C8_FirstCodeAlwaysInvalid ==
    [][\A p \in Procs :
          ( /\ pc[p] = "v_check" /\ pc'[p] # "v_check"
            /\ C8_Fresh(p)
            /\ streak[loc[p].email] >= 0
            /\ replaced[loc[p].email] # "" /\ loc[p].otp = replaced[loc[p].email] )
          => pc'[p] = "v_update"
      ]_vars

\* the first code was tried after the second was issued: the row holds
\* another otp than the overwritten one, with attempts = 1, and the call that
\* just ended is a verifyOTP of the overwritten code that failed with
\* 'Invalid OTP'
C8_Witness ==
    \E e \in Emails :
        /\ replaced[e] # ""
        /\ streak[e] = 1
        /\ Len(RecordsOf(e)) = 1
        /\ RecordsOf(e)[1].otp # replaced[e]
        /\ RecordsOf(e)[1].attempts = 1
        /\ last = Call("verifyOTP", e, replaced[e], ErrInvalid)

---------------------------------------------------------------------------
\* C9: a verifyOTP whose checks run with the clock past the expiresAt of the
\* row it read fails with 'OTP has expired', whatever the otp submitted
\* and the attempts recorded, sends no statement and leaves the table as it
\* is; and the write of a generateOTP that found a row replaces every row of
\* the email, expired or not, by the new code with attempts = 0 and the new
\* expiresAt.
C9_ExpiredFailsAndStays ==
    [][\A p \in Procs :
          LET l == loc[p] IN
          /\ ( /\ pc[p] = "v_check" /\ pc'[p] # "v_check"
               /\ Len(l.records) > 0
               /\ now > l.records[1].expiresAt )
             => /\ C4_Ends(p, ErrExpired)
                /\ emailVerifications' = emailVerifications
          /\ (Moves(p, "g_write", "idle") /\ l.existing > 0)
             => /\ last'.outcome = Returned
                /\ \A i \in 1..Len(emailVerifications') :
                      emailVerifications'[i].email = l.email
                      => emailVerifications'[i] = Row(l.email, l.otp, l.expiresAt, 0)
                /\ Len(emailVerifications') = Len(emailVerifications)
      ]_vars

\* the stored code was submitted too late: the row is still there, expired,
\* and the call that just ended is a verifyOTP of the stored otp that failed
\* with 'OTP has expired'
C9_Witness ==
    \E e \in Emails :
        /\ Len(RecordsOf(e)) = 1
        /\ now > RecordsOf(e)[1].expiresAt
        /\ last = Call("verifyOTP", e, RecordsOf(e)[1].otp, ErrExpired)

---------------------------------------------------------------------------
\* C10: a verifyOTP whose checks run at a time equal to or later than the
\* expiresAt of the row it read fails with 'OTP has expired'.
C10_InvalidFromExpiresAt ==
    [][\A p \in Procs :
          ( /\ pc[p] = "v_check" /\ pc'[p] # "v_check"
            /\ Len(loc[p].records) > 0
            /\ now >= loc[p].records[1].expiresAt )
          => C4_Ends(p, ErrExpired)
      ]_vars

---------------------------------------------------------------------------
\* C11: a verifyOTP goes on to the update exactly when the otp submitted is
\* not, as a string, the otp of the row read (a trailing blank makes it
\* another string); the update, after which the call fails with 'Invalid
\* OTP', is the only statement of that call: it removes no row, leaves the
\* email, otp and expiresAt of every row and the rows of other emails as they
\* are, and sets attempts of the email's row to the value read plus 1, which
\* is the stored value plus 1 when no other call for the email overlapped.
C11_InvalidOnlyRaisesAttempts ==
    [][/\ \A p \in Procs :
            LET l == loc[p]
                t == emailVerifications
            IN  /\ ( /\ pc[p] = "v_check" /\ pc'[p] # "v_check"
                     /\ Len(l.records) > 0
                     /\ ~(now > l.records[1].expiresAt)
                     /\ l.records[1].attempts < 3 )
                   => /\ pc'[p] = "v_update" <=> l.otp # l.records[1].otp
                      /\ pc'[p] = "v_update"
                         => loc'[p].attempts = l.records[1].attempts + 1
                      /\ emailVerifications' = t
                /\ Moves(p, "v_update", "idle")
                   => /\ last' = Call("verifyOTP", l.email, l.otp, ErrInvalid)
                      /\ Len(emailVerifications') = Len(t)
                      /\ \A i \in 1..Len(t) :
                            /\ emailVerifications'[i].email = t[i].email
                            /\ emailVerifications'[i].otp = t[i].otp
                            /\ emailVerifications'[i].expiresAt = t[i].expiresAt
                            /\ t[i].email # l.email => emailVerifications'[i] = t[i]
                            /\ t[i].email = l.email
                               => /\ emailVerifications'[i].attempts = l.attempts
                                  /\ streak[l.email] >= 0
                                     => emailVerifications'[i].attempts = t[i].attempts + 1
       /\ (last'.op = "verifyOTP" /\ last'.outcome = ErrInvalid)
          => \E p \in Procs : Moves(p, "v_update", "idle")
      ]_vars

\* the issued code was submitted with a trailing blank: the call that just
\* ended failed with 'Invalid OTP', and the row of its email, issued at time
\* 0, holds its code and expiresAt with attempts = 1, next to an untouched row
\* of the other email
C11_Witness ==
    /\ last = Call("verifyOTP", FirstEmail, "100000 ", ErrInvalid)
    /\ RecordsOf(FirstEmail) = <<Row(FirstEmail, "100000", OTP_TTL_MS, 1)>>
    /\ streak[FirstEmail] = 1
    /\ \E e \in Emails \ {FirstEmail} :
          Len(RecordsOf(e)) = 1 /\ RecordsOf(e)[1].attempts = 0

---------------------------------------------------------------------------
\* C12: after cleanupExpiredOTPs no row is left whose expiresAt is before
\* the clock of the sweep, whatever its attempts; every row whose expiresAt
\* is not before that clock, also one with attempts = 3, is still stored as
\* it was (same email, otp, expiresAt, attempts), in the same order, and no
\* row is added.
C12_Kept(table, t) == {i \in 1..Len(table) : ~(table[i].expiresAt < t)}

C12_SweepRemovesExactlyExpired ==
    [][last'.op = "cleanupExpiredOTPs"
       => LET t == emailVerifications
          IN  /\ last' = Call("cleanupExpiredOTPs", "", "", Returned)
              /\ \A j \in 1..Len(emailVerifications') :
                    ~(emailVerifications'[j].expiresAt < now)
              /\ \A i \in C12_Kept(t, now) :
                    \E j \in 1..Len(emailVerifications') :
                        /\ emailVerifications'[j] = t[i]
                        /\ j = Cardinality({k \in C12_Kept(t, now) : k <= i})
              /\ Len(emailVerifications') = Cardinality(C12_Kept(t, now))
              /\ now' = now
      ]_vars

\* a locked and expired record was swept: three calls in a row had failed
\* with 'Invalid OTP' on the code issued, no call consumed it, the clock is
\* past its expiresAt, the call that just ended is a cleanupExpiredOTPs, and
\* no row is left for the email
C12_Witness ==
    /\ last = Call("cleanupExpiredOTPs", "", "", Returned)
    /\ streak[FirstEmail] = 3
    /\ consumed[FirstEmail] = ""
    /\ now > OTP_TTL_MS
    /\ RecordsOf(FirstEmail) = <<>>

---------------------------------------------------------------------------
\* C13: every otp stored by generateOTP is the decimal string of a number
\* between 100000 and 999999, and every number from 100000 to 999999, both
\* ends included, is a value the draw of generateOTP can return.
C13_EveryCodeOfRangeIssued ==
    /\ \A i \in 1..Len(emailVerifications) :
          \E n \in OtpDraws :
              /\ emailVerifications[i].otp = ToString(n)
              /\ n >= 100000 /\ n <= 999999
    /\ \A n \in 100000..999999 : n \in randomInt(100000, 999999)

---------------------------------------------------------------------------
\* C16: with a store whose statements all work, every generateOTP call that
\* ends returns its code, whatever the state of the email's record and
\* whatever calls run at the same time: none ends in 'Failed to generate OTP'.
C16_GenerateAlwaysReturns ==
    last.op = "generateOTP" => last.outcome = Returned

---------------------------------------------------------------------------
\* C19: for one code issued by generateOTP at most one verifyOTP call
\* returns true: a verifyOTP returns true only when no verifyOTP for the
\* email has returned true since a generateOTP for it last returned.
C19_AtMostOneSuccessPerCode ==
    [][\A p \in Procs :
          Moves(p, "v_delete", "idle") => consumed[loc[p].email] = ""
      ]_vars

---------------------------------------------------------------------------
\* C20: a verifyOTP whose lookup read the record that a generateOTP has
\* since overwritten does not damage the new record: the delete of a
\* verifyOTP removes only a row that holds the otp the call submitted, and
\* the update of a verifyOTP raises the stored attempts by at most 1.
C20_StaleVerifyHarmless ==
    [][\A p \in Procs :
          LET l == loc[p]
              r == RecordsOf(l.email)
          IN  /\ (Moves(p, "v_delete", "idle") /\ Len(r) > 0) => r[1].otp = l.otp
              /\ (Moves(p, "v_update", "idle") /\ Len(r) > 0)
                 => l.attempts <= r[1].attempts + 1
      ]_vars

---------------------------------------------------------------------------
\* C18: with cleanupExpiredOTPs run again and again, a row whose expiresAt
\* has passed does not stay for ever: it is deleted by a sweep or
\* overwritten by a generateOTP, which gives the row a later expiresAt; and
\* a verifyOTP that finds the row it read expired sends no statement, leaves
\* the table as it is and fails with 'OTP has expired'.
C18_ExpiryTimes == {k * TickMs + OTP_TTL_MS : k \in 0..MaxTicks}

C18_Holds(e, x) ==
    \E i \in 1..Len(emailVerifications) :
        emailVerifications[i].email = e /\ emailVerifications[i].expiresAt = x

---------------------------------------------------------------------------
\* C14: a generateOTP called by register or resendOTP whose lookup, update
\* or insert fails in the store ends in 'Failed to generate OTP', hands no
\* code to its caller and leaves the table as it was; the request ends with
\* that error without handing a mail to sendOTP. A request reaches sendOTP
\* only with the code of a generateOTP that returned, and register and
\* resendOTP report success only after sendOTP delivered that code.
C14_PersistFailureSurfaces ==
    [][\A p \in Procs :
          LET l == loc[p] IN
          /\ (Moves(p, "g_select", "idle") \/ Moves(p, "g_write", "idle"))
             => /\ last'.op = "generateOTP"
                /\ last'.email = l.email
                /\ last'.outcome = ErrGenerate
                /\ emailVerifications' = emailVerifications
                /\ sent' = sent
                /\ loc'[p] = NoLocals
          /\ (pc'[p] = "send" /\ pc[p] # "send")
             => /\ pc[p] = "g_write"
                /\ last' = Call("generateOTP", l.email, l.otp, Returned)
                /\ loc'[p].otp = l.otp /\ loc'[p].email = l.email
          /\ ( /\ pc[p] # "idle" /\ pc'[p] = "idle"
               /\ last'.op \in {"register", "resendOTP"}
               /\ last'.outcome = Returned )
             => /\ pc[p] = "send"
                /\ sent'[l.email] = l.otp
      ]_vars

\* the write of the code failed in a register: the one request made created
\* the user, the call that just ended is a generateOTP that had drawn its
\* code and failed with 'Failed to generate OTP', no row is stored, no mail
\* was sent, and the handlers are idle
C14_Witness ==
    /\ calls = 1
    /\ users[FirstEmail] = "unverified"
    /\ last.op = "generateOTP" /\ last.email = FirstEmail
    /\ last.otp # "" /\ last.outcome = ErrGenerate
    /\ RecordsOf(FirstEmail) = <<>>
    /\ sent[FirstEmail] = ""
    /\ \A p \in Procs : pc[p] = "idle"

---------------------------------------------------------------------------
\* C15: when register or resendOTP goes on to sendOTP with the code c that
\* generateOTP returned, the table holds a row for the email with otp = c
\* and attempts = 0; sendOTP, delivered or failed, leaves the table as it
\* is; and a resendOTP for a user that is not verified is accepted, that
\* is, goes on to generateOTP.
C15_CodeStoredBeforeSend ==
    [][\A p \in Procs :
          LET l == loc[p] IN
          /\ (pc'[p] = "send" /\ pc[p] # "send")
             => \E i \in 1..Len(emailVerifications') :
                    /\ emailVerifications'[i].email = l.email
                    /\ emailVerifications'[i].otp = l.otp
                    /\ emailVerifications'[i].attempts = 0
          /\ (pc[p] = "send" /\ pc'[p] # "send")
             => emailVerifications' = emailVerifications
          /\ ( /\ pc[p] = "idle" /\ pc'[p] # "idle"
               /\ caller'[p] = "resendOTP" )
             => pc'[p] = "g_select"
      ]_vars

---------------------------------------------------------------------------
\* C17: sweeping a table twice at one clock gives what sweeping it once
\* gives; every cleanupExpiredOTPs call returns normally, whether its delete
\* worked or threw, and leaves the table either swept or, when the delete
\* threw, as it was; and a call that follows a call at once on a table with
\* no expired row left changes nothing.
C17_SweptOnce == DeleteExpired(emailVerifications, now)

C17_Expired == {i \in 1..Len(emailVerifications) : emailVerifications[i].expiresAt < now}

C17_SweepIdempotentNeverFails ==
    /\ [](DeleteExpired(C17_SweptOnce, now) = C17_SweptOnce)
    /\ [][last'.op = "cleanupExpiredOTPs"
          => /\ last'.outcome = Returned
             /\ \E p \in Procs : pc[p] = "idle" /\ pc'[p] = "idle" /\ loc'[p] = NoLocals
             /\ \/ emailVerifications' = emailVerifications
                \/ /\ \A j \in 1..Len(emailVerifications') :
                          ~(emailVerifications'[j].expiresAt < now)
                   /\ Len(emailVerifications') =
                          Len(emailVerifications) - Cardinality(C17_Expired)
             /\ (last.op = "cleanupExpiredOTPs" /\ C17_Expired = {})
                => emailVerifications' = emailVerifications
         ]_vars

\* the delete of a sweep threw: the call that just ended is a
\* cleanupExpiredOTPs that returned, and a row whose expiresAt is before the
\* clock is still stored
C17_Witness ==
    /\ last = Call("cleanupExpiredOTPs", "", "", Returned)
    /\ C17_Expired # {}
    /\ \A p \in Procs : pc[p] = "idle"

\* C21: login returns a token only for a user whose isEmailVerified is
\* true: a login that ends while the user of its email is unverified has
\* failed with 'Please verify your email first', whatever password it was
\* called with, and a login that returned was called for a verified user
\* with the password of the registration.
C21_LoginNeedsVerifiedEmail ==
    last.op = "login"
        => /\ users[last.email] = "unverified" => last.outcome = ErrVerifyFirst
           /\ last.outcome = Returned
                 => IsEmailVerified(users[last.email]) /\ last.otp = Password

\* a registered user who has not verified the email logs in with the
\* password of the registration and is refused
C21_Witness ==
    /\ last = Call("login", FirstEmail, Password, ErrVerifyFirst)
    /\ users[FirstEmail] = "unverified"

----------------------------------------------------------------------------
\* C22: the user of an email goes from unverified to verified only in the
\* step of a verifyEmail call for that email that updates the user after
\* its verifyOTP returned true, and the call then returns; a handler comes to
\* that update only from the delete of a verifyOTP for the same email that
\* returned true. A verifyOTP that failed, a register, a resendOTP, a login
\* and a Google sign-in leave isEmailVerified of every existing user as it was.
C22_VerifiedOnlyByVerifyEmail ==
    [][/\ \A e \in Emails :
             (users[e] = "unverified" /\ IsEmailVerified(users'[e]))
                => \E p \in Procs :
                      /\ Moves(p, "e_update", "idle")
                      /\ caller[p] = "verifyEmail"
                      /\ loc[p].email = e
                      /\ last' = Call("verifyEmail", e, loc[p].otp, Returned)
       /\ \A p \in Procs :
             (pc'[p] = "e_update" /\ pc[p] # "e_update")
                => /\ pc[p] = "v_delete"
                   /\ caller[p] = "verifyEmail"
                   /\ loc'[p].email = loc[p].email
                   /\ last' = Call("verifyOTP", loc[p].email, loc[p].otp, Returned)
       /\ (last'.op \in {"register", "resendOTP", "login", "handleGoogleAuth"}
              \/ (last'.op = "verifyOTP" /\ last'.outcome # Returned))
             => \A e \in Emails : users[e] # "none" => users'[e] = users[e]
      ]_vars

\* a registered user verified the email: the verifyEmail call that just
\* returned consumed the code it was called with and marked the user verified
C22_Witness ==
    /\ last.op = "verifyEmail" /\ last.email = FirstEmail /\ last.outcome = Returned
    /\ consumed[FirstEmail] = last.otp
    /\ users[FirstEmail] = "verified"

----------------------------------------------------------------------------
\* C23: a register whose generateOTP returned ends, once emailService.sendOTP
\* was called, with success, whether the mail was delivered or sendOTP
\* threw, and that step leaves the user row and the verification records
\* as they were.
C23_RegisterSurvivesSendFailure ==
    [][\A p \in Procs :
          (Moves(p, "send", "idle") /\ caller[p] = "register")
             => /\ last'.op = "register"
                /\ last'.outcome = Returned
                /\ users' = users /\ users[loc[p].email] # "none"
                /\ emailVerifications' = emailVerifications
      ]_vars

----------------------------------------------------------------------------
\* C24: a resendOTP for an email with no user fails with 'User not found'
\* and one for a user whose isEmailVerified is true with 'Email is already
\* verified'; the call ends in the step of its lookup, without a call of
\* generateOTP, and leaves the verification records and the mails as they
\* were; a resendOTP goes on to generateOTP only when the user it read is
\* not verified.
C24_ResendRefused ==
    [][/\ (last'.op = "resendOTP"
              /\ last'.outcome \in {ErrUserNotFound, ErrAlreadyVerified})
          => /\ \E p \in Procs : Moves(p, "idle", "idle") /\ loc'[p] = NoLocals
             /\ last'.outcome = IF users[last'.email] = "none"
                                THEN ErrUserNotFound ELSE ErrAlreadyVerified
             /\ users[last'.email] # "unverified"
             /\ emailVerifications' = emailVerifications
             /\ sent' = sent
       /\ \A p \in Procs :
             (pc[p] = "idle" /\ caller'[p] = "resendOTP")
                => /\ users[loc'[p].email] = "unverified"
                   /\ pc'[p] = "g_select"
                   /\ emailVerifications' = emailVerifications
      ]_vars

\* a user who verified the email asks for another code: the resendOTP that
\* just ended failed with 'Email is already verified', and no record is
\* stored for the email
C24_Witness ==
    /\ last = Call("resendOTP", FirstEmail, "", ErrAlreadyVerified)
    /\ users[FirstEmail] = "verified"
    /\ consumed[FirstEmail] # ""
    /\ RecordsOf(FirstEmail) = <<>>

----------------------------------------------------------------------------
\* C25: once the verifyOTP of a verifyEmail call has deleted the record of
\* an email and no verifyEmail call for the email is between that delete and
\* its update of the user, the user of the email is verified; and a
\* verifyEmail call that comes past the delete ends with success.
C25_ConsumedMeansVerified ==
    /\ [](\A e \in Emails :
            ( /\ consumed[e] # ""
              /\ \A p \in Procs : ~(pc[p] = "e_update" /\ loc[p].email = e) )
               => IsEmailVerified(users[e]))
    /\ [][\A p \in Procs :
             Moves(p, "e_update", "idle")
                => /\ last' = Call("verifyEmail", loc[p].email, loc[p].otp, Returned)
                   /\ IsEmailVerified(users'[loc[p].email])
         ]_vars

----------------------------------------------------------------------------
\* C26: whatever record the registration of an unverified user has left (in
\* time, expired, with attempts used up, swept away, its mail delivered or
\* not), a resendOTP followed by a verifyEmail with the code of the mail,
\* made before that code expires over a store and a mail transport that
\* work, ends with verifyEmail returning and the user verified.
C26_ResendThenVerifyVerifies ==
    <>( /\ last = Call("verifyEmail", FirstEmail, sent[FirstEmail], Returned)
        /\ users[FirstEmail] = "verified"
        /\ tokens[FirstEmail] = 1 )

\* the record of the registration was still stored when the clock stood at
\* its last tick; the resendOTP overwrote it, and the verifyEmail with the
\* code of the new mail has just returned with the user verified
C26_Witness ==
    /\ last = Call("verifyEmail", FirstEmail, sent[FirstEmail], Returned)
    /\ users[FirstEmail] = "verified"
    /\ replaced[FirstEmail] # ""
    /\ consumed[FirstEmail] = sent[FirstEmail]
    /\ now = MaxTicks * TickMs

----------------------------------------------------------------------------
\* C27: a POST /verify-email whose otp is not a string of exactly six
\* decimal digits is answered 400 in the step it arrives in, without a call
\* of verifyEmail or verifyOTP: the verification records (attempts
\* included), the users and the mails are as they were; and every verifyOTP
\* started for a verifyEmail call has an otp of exactly six decimal digits.
C27_SixDigits(otp) ==
    /\ Len(otp) = 6
    /\ \A i \in 1..6 : SubSeq(otp, i, i) \in Digits

C27_MalformedOtpRejected ==
    [][/\ last'.op = "POST /verify-email"
          => /\ last'.outcome = Status400
             /\ ~C27_SixDigits(last'.otp)
             /\ \E p \in Procs : Moves(p, "idle", "idle") /\ loc'[p] = NoLocals
             /\ emailVerifications' = emailVerifications
             /\ accounts' = accounts
             /\ streak' = streak /\ consumed' = consumed
       /\ \A p \in Procs :
             (pc[p] = "idle" /\ pc'[p] # "idle" /\ caller'[p] = "verifyEmail")
                => /\ C27_SixDigits(loc'[p].otp)
                   /\ pc'[p] = "v_check"
      ]_vars

\* a user with a stored code posts six characters that are not all digits:
\* the request that just ended was answered 400 and the record still has
\* no attempt counted
C27_Witness ==
    /\ last = Call("POST /verify-email", FirstEmail, "10000a", Status400)
    /\ Len(RecordsOf(FirstEmail)) = 1
    /\ RecordsOf(FirstEmail)[1].attempts = 0
    /\ users[FirstEmail] = "unverified"

====
